---- MODULE Spec2Model ----
(***************************************************************************)
(* Personal finance tracker (src/app.py): a Streamlit script that is run   *)
(* from top to bottom on every user interaction.  The ledger lives in      *)
(* st.session_state.data; every run rebuilds the data frame and, when it   *)
(* is not empty, the totals, the pie chart grouping and the text report.   *)
(*                                                                         *)
(* Amounts are Python floats (st.number_input(min_value=0.0)).  They are   *)
(* modelled as binary floating point numbers with a MantissaBits-bit       *)
(* significand and round-to-nearest-even, every value being an integer     *)
(* multiple of the smallest input unit.  IEEE binary64 is the instance     *)
(* MantissaBits = 53.                                                      *)
(***************************************************************************)
EXTENDS Integers, Sequences, FiniteSets, TLC

VARIABLES session_state, txn, notice, page

vars == <<session_state, txn, notice, page>>

(* ------------------------------ bounds --------------------------------- *)

\* Longest ledger explored.  Below 8 rows a pandas/numpy float sum is a
\* plain left-to-right loop, which is what SeriesSum models.
MaxLen == 3

\* Width of the floating point significand in the model (53 in binary64).
MantissaBits == 16

(* --------------------------- floating point ---------------------------- *)

RECURSIVE Pow2(_)
Pow2(n) == IF n = 0 THEN 1 ELSE 2 * Pow2(n - 1)

\* Magnitudes below this bound are all representable.
MantissaLimit == Pow2(MantissaBits)

\* Spacing of representable numbers around the magnitude n >= 0.
RECURSIVE Ulp(_, _)
Ulp(n, u) == IF n < u * MantissaLimit THEN u ELSE Ulp(n, 2 * u)

\* Round a non-negative magnitude to the nearest representable number,
\* ties to the even significand.
RoundMag(n) ==
    LET u == Ulp(n, 1)
        q == n \div u
        r == n % u
    IN  IF 2 * r < u THEN q * u
        ELSE IF 2 * r > u THEN (q + 1) * u
        ELSE IF q % 2 = 0 THEN q * u
        ELSE (q + 1) * u

Round(x) == IF x >= 0 THEN RoundMag(x) ELSE 0 - RoundMag(0 - x)

FAdd(a, b) == Round(a + b)

FSub(a, b) == Round(a - b)

FNeg(a) == 0 - a

(* --------------------------- transactions ------------------------------ *)

NoTxn == [cls |-> "None"]

Transaction__init__(cls, date, category, amount) ==
    [cls |-> cls, date |-> date, category |-> category, amount |-> amount]

Income(date, category, amount) ==
    Transaction__init__("Income", date, category, amount)

Expense(date, category, amount) ==
    Transaction__init__("Expense", date, category, amount)

apply(t) == IF t.cls = "Income" THEN t.amount ELSE FNeg(t.amount)

get_type(t) == IF t.cls = "Income" THEN "Income" ELSE "Expense"

(* ---------------------------- UI inputs -------------------------------- *)

Types == {"Income", "Expense"}

\* Options of the category select box, in the order groupby() sorts them.
CategoryOrder == <<"Food", "Others", "Rent", "Salary", "Shopping", "Travel">>

Categories == {CategoryOrder[i] : i \in DOMAIN CategoryOrder}

\* Categories the model lets the user pick.
CategoryInputs == {"Salary", "Food", "Rent"}

\* The date widget; the date is carried along and never computed with.
Dates == {"2024-01-01"}

\* number_input(min_value=0.0): a float that is never negative.
AmountInputs == {0, 1, MantissaLimit}

(* ---------------------------- the ledger ------------------------------- *)

NoSession == [k \in {} |-> <<>>]

HasData(ss) == "data" \in DOMAIN ss

\* Variant: every run of the script starts from an empty list.
FinanceTracker__init___Reset(ss) == [k \in {"data"} |-> <<>>]

FinanceTracker__init__(ss) ==
    IF HasData(ss) THEN ss ELSE [k \in {"data"} |-> <<>>]

\* Variant: the list is extended before the amount is looked at.
add_transaction_AppendFirst(ss, t) ==
    [raised |-> t.amount <= 0,
     ss |-> [ss EXCEPT !["data"] = Append(ss["data"], t)]]

\* Variant: the comparison is < instead of <=.
add_transaction_Strict(ss, t) ==
    IF t.amount < 0
    THEN [raised |-> TRUE, ss |-> ss]
    ELSE [raised |-> FALSE,
          ss |-> [ss EXCEPT !["data"] = Append(ss["data"], t)]]

\* Variant: no amount check at all.
add_transaction_NoCheck(ss, t) ==
    [raised |-> FALSE,
     ss |-> [ss EXCEPT !["data"] = Append(ss["data"], t)]]

\* Variant: insert(0, ...) instead of append(...).
add_transaction_Prepend(ss, t) ==
    IF t.amount <= 0
    THEN [raised |-> TRUE, ss |-> ss]
    ELSE [raised |-> FALSE,
          ss |-> [ss EXCEPT !["data"] = <<t>> \o ss["data"]]]

\* Result of add_transaction: the ValueError or the appended list.
add_transaction(ss, t) ==
    IF t.amount <= 0
    THEN [raised |-> TRUE, ss |-> ss]
    ELSE [raised |-> FALSE,
          ss |-> [ss EXCEPT !["data"] = Append(ss["data"], t)]]

to_dataframe(ss) ==
    [i \in DOMAIN ss["data"] |->
        [date |-> ss["data"][i].date,
         t_type |-> get_type(ss["data"][i]),
         category |-> ss["data"][i].category,
         amount |-> ss["data"][i].amount]]

(* ------------------------ aggregation and report ----------------------- *)

\* Variant: the row filter keeps the other kind.
SelectType_Swapped(df, kind) == SelectSeq(df, LAMBDA r : r.t_type # kind)

\* df[df["t_type"] == kind]
SelectType(df, kind) == SelectSeq(df, LAMBDA r : r.t_type = kind)

\* Series.sum() of the amount column: a left-to-right float loop from 0.
RECURSIVE SumTo(_, _)
SumTo(rows, n) ==
    IF n = 0 THEN 0 ELSE FAdd(SumTo(rows, n - 1), rows[n].amount)

SeriesSum(rows) == SumTo(rows, Len(rows))

\* groupby(...).sum() of one group.  Current pandas accumulates a group with
\* Kahan compensation, older releases with the plain loop; both are kept.
RECURSIVE KahanTo(_, _)
KahanTo(rows, n) ==
    IF n = 0 THEN [sumx |-> 0, comp |-> 0]
    ELSE LET p == KahanTo(rows, n - 1)
             y == FSub(rows[n].amount, p.comp)
             t == FAdd(p.sumx, y)
         IN  [sumx |-> t, comp |-> FSub(FSub(t, p.sumx), y)]

GroupSum(rows, kahan) ==
    IF kahan THEN KahanTo(rows, Len(rows)).sumx ELSE SeriesSum(rows)

\* exp_df.groupby("category")["amount"].sum(): one entry per category that
\* occurs in exp_df.
groupby_sum(exp_df, kahan) ==
    [c \in {exp_df[i].category : i \in DOMAIN exp_df} |->
        GroupSum(SelectSeq(exp_df, LAMBDA r : r.category = c), kahan)]

\* Variant: the report subtracts the wrong way round.
generate_report_Swapped(df) ==
    LET income == SeriesSum(SelectType(df, "Income"))
        expense == SeriesSum(SelectType(df, "Expense"))
    IN  [income |-> income, expense |-> expense,
         balance |-> FSub(expense, income)]

\* The three numbers the report text prints (the timestamp is left out).
generate_report(df) ==
    LET income == SeriesSum(SelectType(df, "Income"))
        expense == SeriesSum(SelectType(df, "Expense"))
    IN  [income |-> income, expense |-> expense,
         balance |-> FSub(income, expense)]

\* Variant: the totals are rendered without the df.empty guard.
Render_NoEmptyGuard(df, kahan) ==
    LET income == SeriesSum(SelectType(df, "Income"))
        expense == SeriesSum(SelectType(df, "Expense"))
        exp_df == SelectType(df, "Expense")
    IN  [view |-> "table",
         df |-> df,
         income |-> income,
         expense |-> expense,
         balance |-> FSub(income, expense),
         warning |-> expense > income,
         pie_drawn |-> exp_df # <<>>,
         pie |-> groupby_sum(exp_df, kahan),
         report |-> generate_report(df)]

\* Lines 117-165: what one run of the script puts on the page.
Render(df, kahan) ==
    IF df # <<>>
    THEN LET income == SeriesSum(SelectType(df, "Income"))
             expense == SeriesSum(SelectType(df, "Expense"))
             exp_df == SelectType(df, "Expense")
         IN  [view |-> "table",
              df |-> df,
              income |-> income,
              expense |-> expense,
              balance |-> FSub(income, expense),
              warning |-> expense > income,
              pie_drawn |-> exp_df # <<>>,
              pie |-> groupby_sum(exp_df, kahan),
              report |-> generate_report(df)]
    ELSE [view |-> "info"]

(* ----------------------------- behaviour ------------------------------- *)

\* Before the first run of the script: no session data, nothing rendered.
Init ==
    /\ session_state = NoSession
    /\ txn = NoTxn
    /\ notice = "none"
    /\ page = [view |-> "blank"]

\* A run of the script that was not triggered by the Add button (the first
\* page load, or any other widget interaction).
Rerun ==
    /\ session_state' = FinanceTracker__init__(session_state)
    /\ txn' = NoTxn
    /\ notice' = "none"
    /\ \E kahan \in BOOLEAN :
          page' = Render(to_dataframe(session_state'), kahan)

\* A run of the script triggered by the Add button, lines 96-165.
AddClick ==
    /\ page.view # "blank"
    /\ Len(session_state["data"]) < MaxLen
    /\ \E date \in Dates, t_type \in Types,
          category \in CategoryInputs, amount \in AmountInputs :
          LET tracker == FinanceTracker__init__(session_state)
              t == IF t_type = "Income"
                   THEN Income(date, category, amount)
                   ELSE Expense(date, category, amount)
              r == add_transaction(tracker, t)
          IN  /\ txn' = t
              /\ session_state' = r.ss
              /\ notice' = IF r.raised THEN "error" ELSE "success"
              /\ \E kahan \in BOOLEAN :
                    page' = Render(to_dataframe(session_state'), kahan)

Next == Rerun \/ AddClick

Spec == Init /\ [][Next]_vars

(* ------------------------------ helpers -------------------------------- *)

\* The ledger of the session (empty before the first run).
Ledger == IF HasData(session_state) THEN session_state["data"] ELSE <<>>

IsPrefix(s, t) == Len(s) <= Len(t) /\ SubSeq(t, 1, Len(s)) = s

TypeOK ==
    /\ notice \in {"none", "success", "error"}
    /\ page.view \in {"blank", "info", "table"}
    /\ Len(Ledger) <= MaxLen

\* The script has run at least once in this session.
Rendered == page.view # "blank"

(* ------------------------------- C1 ------------------------------------ *)

\* C1: whenever the Add handler is run with an amount <= 0 (zero is the only
\* such amount the number input lets through), add_transaction raises, the
\* error notice is shown and the session's ledger is exactly what it was
\* before the run.
C1_RejectedAddLeavesLedger ==
    [][(txn' # NoTxn /\ txn'.amount <= 0)
          => (notice' = "error" /\ session_state' = session_state)]_vars

C1_Witness ==
    /\ txn # NoTxn
    /\ txn.amount <= 0
    /\ notice = "error"
    /\ Len(Ledger) >= 2

(* ------------------------------- C2 ------------------------------------ *)

\* C2: whenever the Add handler is run with an amount > 0, of either kind
\* and any category, it succeeds and the new ledger is the old ledger with
\* the new transaction appended as its last element; nothing else of the
\* session changes.
C2_ValidAddAppends ==
    [][(txn' # NoTxn /\ txn'.amount > 0)
          => /\ notice' = "success"
             /\ Ledger' = Append(Ledger, txn')
             /\ DOMAIN session_state' = {"data"}]_vars

C2_Witness ==
    /\ notice = "success"
    /\ Len(Ledger) >= 2
    /\ Ledger[Len(Ledger)] = txn
    /\ Ledger[1] # txn

(* ------------------------------- C3 ------------------------------------ *)

C4_StoredAmountsPositive == \A i \in DOMAIN Ledger : Ledger[i].amount > 0

C4_Witness ==
    /\ Len(Ledger) = MaxLen
    /\ \E i, j \in DOMAIN Ledger : Ledger[i].cls # Ledger[j].cls

(* ------------------------------- C5 ------------------------------------ *)

\* C5: the ledger is empty at session start and every step of the session
\* (each of which runs FinanceTracker() again) leaves the old ledger as a
\* prefix of the new one: nothing is removed, reordered, modified or reset.
C5_AppendOnly == (Ledger = <<>>) /\ [][IsPrefix(Ledger, Ledger')]_vars

C5_Witness ==
    /\ Len(Ledger) >= 2
    /\ notice = "none"
    /\ txn = NoTxn

(* ------------------------------- C6 ------------------------------------ *)

\* Sum of the amounts of the ledger's first n transactions whose kind label
\* is kind, in ledger order.
RECURSIVE TotalOfKind(_, _, _)
TotalOfKind(ledger, kind, n) ==
    IF n = 0 THEN 0
    ELSE IF get_type(ledger[n]) = kind
         THEN FAdd(TotalOfKind(ledger, kind, n - 1), ledger[n].amount)
         ELSE TotalOfKind(ledger, kind, n - 1)

ScenarioLedger ==
    <<Income("2024-01-01", "Salary", 50000),
      Income("2024-01-05", "Salary", 2000),
      Expense("2024-01-10", "Rent", 15000),
      Expense("2024-01-12", "Food", 3000)>>

ScenarioPage ==
    Render(to_dataframe([k \in {"data"} |-> ScenarioLedger]), TRUE)

\* C6: the income total on the page and in the report is the sum of the
\* amounts of exactly the transactions labelled "Income", the expense total
\* that of exactly those labelled "Expense"; the example ledger gives
\* 52000, 18000 and 34000.
C6_TotalsByKind ==
    /\ page.view = "table"
          => /\ page.income = TotalOfKind(Ledger, "Income", Len(Ledger))
             /\ page.expense = TotalOfKind(Ledger, "Expense", Len(Ledger))
             /\ page.report.income = page.income
             /\ page.report.expense = page.expense
    /\ ScenarioPage.income = 52000
    /\ ScenarioPage.expense = 18000
    /\ ScenarioPage.balance = 34000

C6_Witness ==
    /\ page.view = "table"
    /\ Len(Ledger) = MaxLen
    /\ page.income > 0
    /\ page.expense > 0
    /\ page.income # page.expense

(* ------------------------------- C7 ------------------------------------ *)

\* Sum of the values of a groupby result, over its first n keys in the
\* sorted key order the result is indexed by.
RECURSIVE SumValues(_, _)
SumValues(by_category, n) ==
    IF n = 0 THEN 0
    ELSE IF CategoryOrder[n] \in DOMAIN by_category
         THEN FAdd(SumValues(by_category, n - 1),
                   by_category[CategoryOrder[n]])
         ELSE SumValues(by_category, n - 1)

\* C7: the per-category expense sums add up to the expense total, and only
\* categories of Expense transactions have an entry.
C7_CategoriesSumToExpense ==
    page.view = "table"
        => /\ SumValues(page.pie, Len(CategoryOrder)) = page.expense
           /\ DOMAIN page.pie =
                 {Ledger[i].category :
                     i \in {j \in DOMAIN Ledger :
                               get_type(Ledger[j]) = "Expense"}}

(* ------------------------------- C8 ------------------------------------ *)

\* C8: the balance of the page metric and the balance of the report are both
\* the income total minus the expense total, and page and report are
\* computed from the same rows of the current ledger.
C8_BalanceIsDifference ==
    page.view = "table"
        => /\ page.df = to_dataframe(session_state)
           /\ page.balance = FSub(page.income, page.expense)
           /\ page.report.balance = FSub(page.income, page.expense)

C8_Witness ==
    /\ page.view = "table"
    /\ page.income > 0
    /\ page.expense > page.income
    /\ page.report.balance < 0

(* ------------------------------- C9 ------------------------------------ *)

RECURSIVE SignedSum(_, _)
SignedSum(ledger, n) ==
    IF n = 0 THEN 0 ELSE FAdd(SignedSum(ledger, n - 1), apply(ledger[n]))

\* C10: the balance the aggregator computes equals the sum over the ledger
\* of the signed contributions apply().
C10_BalanceIsSignedSum ==
    page.view = "table" => page.balance = SignedSum(Ledger, Len(Ledger))

====
